---- MODULE Spec2Model ----
(***************************************************************************)
(* Vault metrics ingestion pipeline (obrezzzkova/vault_analysis).          *)
(*                                                                         *)
(* Two programs are modelled, selected by the variable `variant`:          *)
(*   "history" : src/etl_with_history.py  (backfill_history, then run_live)*)
(*   "simple"  : src/etl.py               (run: extract_and_transform,load)*)
(*                                                                         *)
(* Python floats are IEEE-754 doubles.  A float is modelled by its 53-bit  *)
(* significand and the exponent of its leading bit, so that int / int is   *)
(* computed with the rounding the interpreter performs.                    *)
(***************************************************************************)
EXTENDS Integers, Sequences, FiniteSets, TLC

(***************************************************************************)
(* Program constants                                                       *)
(***************************************************************************)
DEPLOYMENT_BLOCK == 23356156
DefaultStep == 50000
MantissaBits == 53

(***************************************************************************)
(* Bounds of the model                                                     *)
(***************************************************************************)
MaxStrides == 2      \* the chain head is at most MaxStrides strides past DEPLOYMENT_BLOCK
MaxLiveIters == 1    \* sleeps of the polling loops modelled
MaxRestarts == 1     \* times the operator kills and restarts the process
MaxFaults == 1       \* RPC / store failures injected
MaxGrowth == 2       \* blocks the chain can grow while etl.py polls

NULL == "NULL"       \* a Python name not yet bound
SqlNull == << >>     \* a text column left NULL (str() of an int is never empty)

(***************************************************************************)
(* Arbitrary-precision naturals: sequences of limbs in base 1024, least    *)
(* significant first.  Used to state what a float denotes without          *)
(* overflowing the integers of the checker.                                *)
(***************************************************************************)
LimbBits == 10

Zeros(n) == [i \in 1..n |-> 0]

Max(a, b) == IF a >= b THEN a ELSE b

RECURSIVE Pow2(_)
Pow2(k) == IF k = 0 THEN 1 ELSE 2 * Pow2(k - 1)

Base == Pow2(LimbBits)

\* the sum f[1] + ... + f[n] of a sequence of numbers
RECURSIVE SumSeq(_, _)
SumSeq(f, n) == IF n = 0 THEN 0 ELSE f[n] + SumSeq(f, n - 1)

Limb(x, i) == IF i >= 1 /\ i <= Len(x) THEN x[i] ELSE 0

\* propagate carries through a sequence of numbers that may exceed a limb
RECURSIVE Carry(_, _)
Carry(x, c) ==
    IF x = <<>> THEN (IF c = 0 THEN <<>> ELSE <<c % Base>> \o Carry(<<>>, c \div Base))
    ELSE <<(Head(x) + c) % Base>> \o Carry(Tail(x), (Head(x) + c) \div Base)

BigFromInt(n) == Carry(<<>>, n)

BigAdd(x, y) == Carry([i \in 1..Max(Len(x), Len(y)) |-> Limb(x, i) + Limb(y, i)], 0)

BigMul(x, y) ==
    Carry([k \in 1..(Len(x) + Len(y)) |->
              SumSeq([i \in 1..Len(x) |-> x[i] * Limb(y, k + 1 - i)], Len(x))], 0)

BigPow2(k) == Zeros(k \div LimbBits) \o <<Pow2(k % LimbBits)>>

\* the number written by a bit string, most significant bit first
BigFromBits(bits) ==
    LET L == Len(bits)
        BitAt(p) == IF p < L THEN bits[L - p] ELSE 0
    IN  [j \in 1..((L + LimbBits - 1) \div LimbBits) |->
            SumSeq([t \in 1..LimbBits |->
                       BitAt(LimbBits * (j - 1) + t - 1) * Pow2(t - 1)], LimbBits)]

\* -1, 0 or 1 as x < y, x = y, x > y, comparing limbs from position i down
RECURSIVE BigCmpFrom(_, _, _)
BigCmpFrom(x, y, i) ==
    IF i = 0 THEN 0
    ELSE IF Limb(x, i) < Limb(y, i) THEN -1
    ELSE IF Limb(x, i) > Limb(y, i) THEN 1
    ELSE BigCmpFrom(x, y, i - 1)

BigCmp(x, y) == BigCmpFrom(x, y, Max(Len(x), Len(y)))

BigLeq(x, y) == BigCmp(x, y) <= 0

(***************************************************************************)
(* The chain and the vault the model runs against                          *)
(***************************************************************************)
\* strides tried by the repository's entry point and its commented-out call
Steps == {10000, DefaultStep}

\* heads considered while etl_with_history.py runs with stride s: on a
\* stride boundary or one block past it
HeadsFor(s) == { DEPLOYMENT_BLOCK + k * s + j : k \in 0..MaxStrides, j \in {0, 1} }

\* heads considered while etl.py runs
PollHeads == { DEPLOYMENT_BLOCK + j : j \in 0..MaxGrowth }

\* histories of the vault considered, as functions of the block number:
\* a funded vault whose assets grow with every block, and a vault that
\* holds assets before any share is issued
Funded(bs) ==
    [ b \in bs |-> [totalAssets |-> 1500000000 + (b - DEPLOYMENT_BLOCK),
                    totalSupply |-> 1000000000] ]

Unissued(bs) ==
    [ b \in bs |-> [totalAssets |-> 57 + (b - DEPLOYMENT_BLOCK),
                    totalSupply |-> 0] ]

\* each with the decimals() of its token
VaultHistories(bs) == { [at |-> Funded(bs),   decimals |-> 9],
                        [at |-> Unissued(bs), decimals |-> 2] }

(***************************************************************************)
(* Floats.  [sig, exp] denotes  sig * 2^(exp - (MantissaBits - 1)), where  *)
(* sig is a natural number of exactly MantissaBits bits (kept in limbs);   *)
(* zero is the zero significand with exponent 0.  The significand is       *)
(* computed bit by bit, most significant bit first.                        *)
(***************************************************************************)
Float(bits, e) == [sig |-> BigFromBits(bits), exp |-> e]

FloatZero == Float(Zeros(MantissaBits), 0)
FloatOne  == Float(<<1>> \o Zeros(MantissaBits - 1), 0)

\* what a division by zero leaves in place of a float: no significand at all
ZeroDivisionError == [sig |-> << >>, exp |-> 0]

RECURSIVE Pow10(_)
Pow10(d) == IF d = 0 THEN 1 ELSE 10 * Pow10(d - 1)

\* scale num or den by powers of two until den <= num < 2 * den
RECURSIVE NormExp(_, _, _)
NormExp(a, b, e) ==
    IF a < b THEN NormExp(2 * a, b, e - 1)
    ELSE IF a - b >= b THEN NormExp(a, 2 * b, e + 1)
    ELSE [num |-> a, den |-> b, exp |-> e]

\* the next n bits of r / b (r < b) and the remainder left after them
RECURSIVE DivBits(_, _, _)
DivBits(r, b, n) ==
    IF n = 0 THEN [bits |-> <<>>, rem |-> r]
    ELSE IF n = 1
         THEN IF r >= b - r THEN [bits |-> <<1>>, rem |-> r - (b - r)]
                            ELSE [bits |-> <<0>>, rem |-> 2 * r]
    ELSE LET h == DivBits(r, b, n \div 2)
             t == DivBits(h.rem, b, n - (n \div 2))
         IN  [bits |-> h.bits \o t.bits, rem |-> t.rem]

\* add one to a bit string (most significant bit first): the trailing ones
\* become zeros and the zero before them becomes one
Incr(s) ==
    LET zs == {i \in 1..Len(s) : s[i] = 0}
        p  == IF zs = {} THEN 0 ELSE CHOOSE i \in zs : \A j \in zs : j <= i
    IN  [bits  |-> [i \in 1..Len(s) |-> IF i < p THEN s[i] ELSE IF i = p THEN 1 ELSE 0],
         carry |-> IF p = 0 THEN 1 ELSE 0]

\* the double nearest to the exact quotient a / b, ties to even;
\* ZeroDivisionError when b = 0
NearestDouble(a, b) ==
    IF b = 0 THEN ZeroDivisionError
    ELSE IF a = 0 THEN FloatZero
    ELSE LET n     == NormExp(a, b, 0)
             d     == DivBits(n.num - n.den, n.den, MantissaBits - 1)
             trunc == <<1>> \o d.bits
             up    == \/ d.rem > n.den - d.rem
                      \/ d.rem = n.den - d.rem /\ trunc[MantissaBits] = 1
             inc   == Incr(trunc)
         IN  IF ~up THEN Float(trunc, n.exp)
             ELSE IF inc.carry = 1
                  THEN Float(<<1>> \o Zeros(MantissaBits - 1), n.exp + 1)
                  ELSE Float(inc.bits, n.exp)

\* the divisions the modelled vault can ask for: its assets at a block by
\* 10^decimals and by its supply at that block.  Their quotients are worked
\* out once.
ChainBlocks == UNION { HeadsFor(s) : s \in Steps } \cup PollHeads

ChainOperands ==
    UNION { { <<h.at[b].totalAssets, Pow10(h.decimals)>>,
              <<h.at[b].totalAssets, h.at[b].totalSupply>> } :
            h \in VaultHistories(ChainBlocks), b \in ChainBlocks }

Quotients == [ p \in ChainOperands |-> NearestDouble(p[1], p[2]) ]

\* a / b with the quotient cut after 53 bits instead of rounded
TrueDiv_Truncating(a, b) ==
    IF b = 0 THEN [sig |-> << >>, exp |-> 0]
    ELSE IF a = 0 THEN FloatZero
    ELSE LET n == NormExp(a, b, 0)
             d == DivBits(n.num - n.den, n.den, MantissaBits - 1)
         IN  Float(<<1>> \o d.bits, n.exp)

\* Python's  a / b  on non-negative ints
TrueDiv(a, b) ==
    IF <<a, b>> \in ChainOperands THEN Quotients[<<a, b>>] ELSE NearestDouble(a, b)

(***************************************************************************)
(* str(int): the decimal numeral of a non-negative integer.                *)
(***************************************************************************)
Digits == <<"0", "1", "2", "3", "4", "5", "6", "7", "8", "9">>

RECURSIVE Str(_)
Str(n) == IF n < 10 THEN <<Digits[n + 1]>>
          ELSE Str(n \div 10) \o <<Digits[(n % 10) + 1]>>

(***************************************************************************)
(* What a float denotes, stated with exact integers: for x = [sig, exp]    *)
(* and integers a >= 0, b > 0,                                             *)
(*     x = a / b        iff  2 * sig * b  =  a * 2^(53 - exp)              *)
(*     |x - a / b| <= u iff  the two sides differ by at most b             *)
(* where u is half a unit in the last place of x.  (exp <= 31 for the      *)
(* quotient of two machine integers, so the shift is non-negative.)        *)
(***************************************************************************)
SigTimes(x, b) == BigMul(BigMul(x.sig, BigFromInt(b)), BigFromInt(2))
Scaled(x, a)   == BigMul(BigFromInt(a), BigPow2(MantissaBits - x.exp))
HalfUlp(b)     == BigFromInt(b)

\* the float x is exactly the rational a / b
IsExactly(x, a, b) == BigCmp(SigTimes(x, b), Scaled(x, a)) = 0

\* the float x is within half a unit in the last place of a / b
IsNearest(x, a, b) ==
    /\ BigLeq(SigTimes(x, b), BigAdd(Scaled(x, a), HalfUlp(b)))
    /\ BigLeq(Scaled(x, a), BigAdd(SigTimes(x, b), HalfUlp(b)))

\* x is zero or a significand of exactly MantissaBits bits
IsFloat(x) ==
    /\ x # ZeroDivisionError
    /\ \/ x = FloatZero
       \/ /\ BigLeq(BigPow2(MantissaBits - 1), x.sig)
          /\ ~BigLeq(BigPow2(MantissaBits), x.sig)

(***************************************************************************)
(* The two transforms                                                      *)
(***************************************************************************)
\* get_data_at_block dividing whenever raw_supply >= 0
GetDataMetric_SupplyGeq(block_number, raw_assets, raw_supply, decimals) ==
    [ timestamp        |-> <<"block_time", block_number>>,
      block_number     |-> block_number,
      tvl_assets       |-> TrueDiv(raw_assets, Pow10(decimals)),
      share_price      |-> IF raw_supply >= 0 THEN TrueDiv(raw_assets, raw_supply)
                                              ELSE FloatOne,
      raw_total_assets |-> SqlNull ]

\* etl_with_history.py, get_data_at_block: the VaultMetric it returns.
\* raw_total_assets is not passed to the constructor, so the column is NULL.
GetDataMetric(block_number, raw_assets, raw_supply, decimals) ==
    [ timestamp        |-> <<"block_time", block_number>>,
      block_number     |-> block_number,
      tvl_assets       |-> TrueDiv(raw_assets, Pow10(decimals)),
      share_price      |-> IF raw_supply > 0 THEN TrueDiv(raw_assets, raw_supply)
                                             ELSE FloatOne,
      raw_total_assets |-> SqlNull ]

\* etl.py, extract_and_transform: the VaultMetric it returns.
\* timestamp is left to the column default (utcnow at insert).
ExtractMetric(block_number, raw_assets, raw_supply, decimals) ==
    [ timestamp        |-> <<"utcnow">>,
      block_number     |-> block_number,
      tvl_assets       |-> TrueDiv(raw_assets, Pow10(decimals)),
      share_price      |-> IF raw_supply > 0 THEN TrueDiv(raw_assets, raw_supply)
                                             ELSE FloatOne,
      raw_total_assets |-> Str(raw_assets) ]

(***************************************************************************)
(* State                                                                   *)
(***************************************************************************)
VARIABLES
    variant,        \* which program runs: "history" or "simple"
    pc,             \* position of the process
    head,           \* number of the latest block of the chain
    vault,          \* block number -> [totalAssets, totalSupply] of the vault
                    \* at that block
    vaultDecimals,  \* decimals() of the vault
    store,          \* committed rows of vault_metrics, in insertion order
    session,        \* the SQLAlchemy session in use: "none", "open", "closed"
    pending,        \* objects added to the session and not yet committed
    step,           \* backfill_history(step)
    count,          \* backfill_history: the row count it read
    current_block,  \* backfill_history: the head it read
    blocks,         \* backfill_history: the blocks the for loop has yet to visit
    block,          \* backfill_history: the loop variable
    latest_block,   \* extract_and_transform: latest_block['number']
    raw_assets,     \* extract_and_transform: totalAssets().call()
    raw_supply,     \* extract_and_transform: totalSupply().call()
    metric,         \* run: the metric handed to load
    sampled,        \* history of this run's backfill: <<block, outcome>> per iteration
    liveIters,      \* polling iterations completed
    faults,         \* failures injected
    restarts,       \* restarts of the process so far
    RPC_URL,        \* os.getenv("RPC_URL"): a URL, or NULL when not set
    DB_URL,         \* os.getenv("DB_URL"): a URL, or NULL when not set
    events,         \* chain samples attempted and sleeps taken by this process, in order
    report,         \* what the last polling iteration raised and printed
    t_in,           \* transform on its own: the raw reads handed to it
    t_out           \* transform on its own: the metrics built from them

vars == << variant, pc, head, vault, vaultDecimals, store, session, pending,
           step, count, current_block, blocks, block, latest_block,
           raw_assets, raw_supply, metric, sampled, liveIters, faults, restarts,
           RPC_URL, DB_URL, events, report, t_in, t_out >>

locals == << count, current_block, blocks, block, latest_block, raw_assets,
            raw_supply, metric >>
chain  == << head, vault, vaultDecimals >>
tvars  == << t_in, t_out >>
environ == << RPC_URL, DB_URL >>

(***************************************************************************)
(* Environment: the chain                                                  *)
(***************************************************************************)
Heads == IF variant = "history" THEN HeadsFor(step) ELSE PollHeads

CanFail == faults < MaxFaults

(***************************************************************************)
(* The store                                                               *)
(***************************************************************************)
\* columns of vault_metrics that carry a uniqueness constraint: only the
\* primary key id (block_number is a plain BigInteger column)
UniqueColumns == {"id"}

\* INSERT of the pending object m: the row as stored, with its serial id
\* and the raw reads it was built from (ghost field reads)
RowOf(m, rows) == [ id               |-> Len(rows) + 1,
                    timestamp        |-> m.timestamp,
                    block_number     |-> m.block_number,
                    tvl_assets       |-> m.tvl_assets,
                    share_price      |-> m.share_price,
                    raw_total_assets |-> m.raw_total_assets,
                    reads            |-> m.reads ]

\* the INSERT violates a uniqueness constraint of the table
UniqueViolation(m, rows) ==
    \E c \in UniqueColumns : \E i \in 1..Len(rows) : rows[i][c] = RowOf(m, rows)[c]

RECURSIVE Flush(_, _)
Flush(objs, rows) ==
    IF objs = <<>> THEN rows
    ELSE Flush(Tail(objs), Append(rows, RowOf(Head(objs), rows)))

\* a commit that replaces the rows of the blocks it writes
Commit_Replace(objs, rows) ==
    Flush(objs, SelectSeq(rows, LAMBDA r :
                    \A k \in 1..Len(objs) : objs[k].block_number # r.block_number))

\* session.commit(): every pending object becomes a row
Commit(objs, rows) == Flush(objs, rows)

\* metrics carry the reads they were computed from (ghost field)
WithReads(m, a, sup, d) ==
    [ timestamp |-> m.timestamp, block_number |-> m.block_number,
      tvl_assets |-> m.tvl_assets, share_price |-> m.share_price,
      raw_total_assets |-> m.raw_total_assets,
      reads |-> [totalAssets |-> a, totalSupply |-> sup, decimals |-> d] ]

\* get_data_at_block(b) when its four RPC calls succeed with vault state v
get_data_at_block(b, v) ==
    WithReads(GetDataMetric(b, v.totalAssets, v.totalSupply, vaultDecimals),
              v.totalAssets, v.totalSupply, vaultDecimals)

\* the store holds a row of block b
HasBlock(rows, b) == \E i \in 1..Len(rows) : rows[i].block_number = b

\* what the database driver can raise on commit, by the text of its message:
\* a violated unique constraint, or a lost connection
StoreErrors == {"unique constraint", "connection"}

\* run_live: the test that keeps an exception out of the log
Suppressed(e) == e = "unique constraint"

\* run_live: what an iteration that raised e printed ("none": it raised nothing)
LiveReport(e, dup) ==
    [ raised    |-> e,
      printed   |-> IF e = "none" THEN "info"
                    ELSE IF Suppressed(e) THEN "none" ELSE "error",
      duplicate |-> dup ]

\* load: what a call that raised e printed
LoadReport(e, dup) ==
    [ raised    |-> e,
      printed   |-> IF e = "none" THEN "info" ELSE "error",
      duplicate |-> dup ]

\* entries of events
Sample(mode) == <<"sample", mode>>
Sleep(what)  == <<"sleep", what>>

(***************************************************************************)
(* Initial state                                                           *)
(***************************************************************************)
\* values of a connection parameter: etl_with_history.py takes it from the
\* environment, where it may not be set; etl.py carries it as a literal
Environ(v) == IF v = "history" THEN {"url", NULL} ELSE {"url"}

\* nothing raised or printed by a polling iteration yet
NoReport == [raised |-> NULL, printed |-> NULL, duplicate |-> FALSE]

NoLocals ==
    /\ count = NULL /\ current_block = NULL /\ blocks = << >> /\ block = NULL
    /\ latest_block = NULL /\ raw_assets = NULL /\ raw_supply = NULL
    /\ metric = NULL

Init ==
    /\ variant \in {"history", "simple"}
    /\ step \in (IF variant = "history" THEN Steps ELSE {DefaultStep})
    /\ pc = "start"
    /\ head \in Heads
    /\ \E h \in VaultHistories(Heads) :
          vault = h.at /\ vaultDecimals = h.decimals
    /\ store = << >>
    /\ session = "none"
    /\ pending = << >>
    /\ NoLocals
    /\ sampled = << >>
    /\ liveIters = 0
    /\ faults = 0
    /\ restarts = 0
    /\ RPC_URL \in Environ(variant)
    /\ DB_URL \in Environ(variant)
    /\ events = << >>
    /\ report = NoReport
    /\ t_in = << >>
    /\ t_out = << >>

(***************************************************************************)
(* etl_with_history.py                                                     *)
(***************************************************************************)
\* a range that includes its stop
Range_Inclusive(start, stop, st) ==
    [ i \in 1..(IF stop < start THEN 0 ELSE (stop - start + st) \div st)
        |-> start + (i - 1) * st ]

\* the range walked from the head back to the deployment block
Range_Descending(start, stop, st) ==
    LET n == IF stop <= start THEN 0 ELSE (stop - start + st - 1) \div st
    IN  [ i \in 1..n |-> start + (n - i) * st ]

\* list(range(start, stop, st)) for st > 0
Range(start, stop, st) ==
    [ i \in 1..(IF stop <= start THEN 0 ELSE (stop - start + st - 1) \div st)
        |-> start + (i - 1) * st ]

\* a backfill that runs whatever the count
BackfillNeeded_Always(c) == c >= 0

\* backfill_history: the test that decides whether history is collected
BackfillNeeded(c) == c = 0

\* module level with every parameter taken as present
Configure_Unchecked ==
    /\ pc = "start"
    /\ pc' = "init"
    /\ UNCHANGED << variant, environ, chain, store, session, pending, step, locals,
                    sampled, liveIters, faults, restarts, events, report, tvars >>

\* module level: RPC_URL and DB_URL are read (etl_with_history.py: from the
\* environment, and ValueError is raised when RPC_URL is not set; DB_URL is
\* not tested)
Configure ==
    /\ pc = "start"
    /\ pc' = IF variant = "history" /\ RPC_URL = NULL THEN "terminated" ELSE "init"
    /\ UNCHANGED << variant, environ, chain, store, session, pending, step, locals,
                    sampled, liveIters, faults, restarts, events, report, tvars >>

\* VaultETL(): Web3 provider, engine, create_all, sessionmaker, contract.
\* create_engine raises when it is handed None instead of a URL; nothing
\* catches it.
Construct ==
    /\ pc = "init"
    /\ pc' = IF DB_URL = NULL THEN "terminated"
             ELSE IF variant = "history" THEN "bf_count" ELSE "ex_block"
    /\ UNCHANGED << variant, environ, chain, store, session, pending, step, locals,
                    sampled, liveIters, faults, restarts, events, report, tvars >>

\* backfill_history: session = self.Session(); count = session.query(...).scalar()
\* The query is outside any try: if it raises, the exception leaves the program.
BackfillCount ==
    /\ pc = "bf_count"
    /\ session' = "open"
    /\ \/ /\ CanFail
          /\ faults' = faults + 1
          /\ pc' = "terminated"
          /\ UNCHANGED count
       \/ /\ count' = Len(store)
          /\ pc' = IF BackfillNeeded(Len(store)) THEN "bf_head" ELSE "bf_close"
          /\ UNCHANGED faults
    /\ UNCHANGED << variant, environ, chain, store, pending, step, current_block, blocks, block,
                    latest_block, raw_assets, raw_supply, metric, sampled,
                    liveIters, restarts, events, report, tvars >>

\* backfill_history: current_block = get_block('latest')['number'], and the
\* range of the for loop is built.  Also outside any try.
BackfillHead ==
    /\ pc = "bf_head"
    /\ \/ /\ CanFail
          /\ faults' = faults + 1
          /\ pc' = "terminated"
          /\ UNCHANGED << current_block, blocks >>
       \/ /\ current_block' = head
          /\ blocks' = Range(DEPLOYMENT_BLOCK, head, step)
          /\ pc' = "bf_loop"
          /\ UNCHANGED faults
    /\ UNCHANGED << variant, environ, chain, store, session, pending, step, count, block,
                    latest_block, raw_assets, raw_supply, metric, sampled,
                    liveIters, restarts, events, report, tvars >>

\* the for loop of backfill_history leaving the loop on the first exception
BackfillIter_AbortOnFailure ==
    /\ pc = "bf_loop"
    /\ blocks # << >>
    /\ block' = Head(blocks)
    /\ \/ LET m == get_data_at_block(block', vault[block']) IN
          /\ store' = Commit(Append(pending, m), store)
          /\ sampled' = Append(sampled, <<block', "ok">>)
          /\ events' = events \o << Sample("backfill"), Sleep("0.1") >>
          /\ blocks' = Tail(blocks)
          /\ UNCHANGED faults
       \/ /\ CanFail
          /\ faults' = faults + 1
          /\ sampled' = Append(sampled, <<block', "sample failed">>)
          /\ events' = Append(events, Sample("backfill"))
          /\ blocks' = << >>
          /\ UNCHANGED store
    /\ pending' = << >>
    /\ UNCHANGED << variant, environ, pc, chain, session, step, count, current_block,
                    latest_block, raw_assets, raw_supply, metric, liveIters,
                    restarts, report, tvars >>

\* the for loop of backfill_history without the rollback of its except
\* clause: a metric whose commit failed stays pending in the session
BackfillIter_NoRollback ==
    /\ pc = "bf_loop"
    /\ blocks # << >>
    /\ block' = Head(blocks)
    /\ blocks' = Tail(blocks)
    /\ \/ LET m == get_data_at_block(block', vault[block']) IN
          /\ store' = Commit(Append(pending, m), store)
          /\ sampled' = Append(sampled, <<block', "ok">>)
          /\ events' = events \o << Sample("backfill"), Sleep("0.1") >>
          /\ pending' = << >>
          /\ UNCHANGED faults
       \/ /\ CanFail
          /\ faults' = faults + 1
          /\ sampled' = Append(sampled, <<block', "sample failed">>)
          /\ events' = Append(events, Sample("backfill"))
          /\ UNCHANGED << store, pending >>
       \/ /\ CanFail
          /\ faults' = faults + 1
          /\ sampled' = Append(sampled, <<block', "commit failed">>)
          /\ events' = events \o << Sample("backfill"), Sleep("0.1") >>
          /\ pending' = Append(pending, get_data_at_block(block', vault[block']))
          /\ UNCHANGED store
    /\ UNCHANGED << variant, environ, pc, chain, session, step, count, current_block,
                    latest_block, raw_assets, raw_supply, metric, liveIters,
                    restarts, report, tvars >>

\* one iteration of the for loop of backfill_history:
\*   try: metric = get_data_at_block(block); sleep; add; commit
\*   except Exception: rollback
BackfillIter ==
    /\ pc = "bf_loop"
    /\ blocks # << >>
    /\ block' = Head(blocks)
    /\ blocks' = Tail(blocks)
    /\ \/ LET m == get_data_at_block(block', vault[block']) IN   \* sampled; commit
          /\ store' = IF UniqueViolation(m, store) THEN store  \* or IntegrityError
                      ELSE Commit(Append(pending, m), store)
          /\ sampled' = Append(sampled,
                 <<block', IF UniqueViolation(m, store) THEN "unique constraint" ELSE "ok">>)
          /\ events' = events \o << Sample("backfill"), Sleep("0.1") >>
          /\ UNCHANGED faults
       \/ /\ CanFail                                  \* an RPC call raises:
          /\ faults' = faults + 1                     \* time.sleep(0.1) is skipped
          /\ sampled' = Append(sampled, <<block', "sample failed">>)
          /\ events' = Append(events, Sample("backfill"))
          /\ UNCHANGED store
       \/ /\ CanFail                                  \* the store fails on commit
          /\ faults' = faults + 1
          /\ sampled' = Append(sampled, <<block', "commit failed">>)
          /\ events' = events \o << Sample("backfill"), Sleep("0.1") >>
          /\ UNCHANGED store
    /\ pending' = << >>
    /\ UNCHANGED << variant, environ, pc, chain, session, step, count, current_block,
                    latest_block, raw_assets, raw_supply, metric, liveIters,
                    restarts, report, tvars >>

\* the for loop is exhausted
BackfillEnd ==
    /\ pc = "bf_loop"
    /\ blocks = << >>
    /\ pc' = "bf_close"
    /\ UNCHANGED << variant, environ, chain, store, session, pending, step, locals,
                    sampled, liveIters, faults, restarts, events, report, tvars >>

\* session.close(); backfill_history returns and __main__ calls run_live
BackfillClose ==
    /\ pc = "bf_close"
    /\ session' = "closed"
    /\ pending' = << >>
    /\ pc' = "live_open"
    /\ UNCHANGED << variant, environ, chain, store, step, locals, sampled, liveIters,
                    faults, restarts, events, report, tvars >>

\* run_live with its sleep inside the try block: an iteration that raises
\* goes straight to the next one
LiveIter_SleepInTry ==
    /\ pc = "live_open"
    /\ \/ LET m == get_data_at_block(head, vault[head]) IN
          /\ latest_block' = head
          /\ store' = Commit(<<m>>, store)
          /\ report' = LiveReport("none", HasBlock(store, head))
          /\ pc' = "live_sleep"
          /\ UNCHANGED faults
       \/ /\ CanFail
          /\ faults' = faults + 1
          /\ latest_block' = head
          /\ report' = LiveReport("rpc", FALSE)
          /\ pc' = "live_open"
          /\ UNCHANGED store
    /\ events' = Append(events, Sample("live"))
    /\ session' = "closed"
    /\ pending' = << >>
    /\ UNCHANGED << variant, environ, chain, step, count, current_block, blocks, block,
                    raw_assets, raw_supply, metric, sampled, liveIters,
                    restarts, tvars >>

\* one iteration of run_live up to the sleep:
\*   session = self.Session()
\*   try: latest_block = ...; metric = get_data_at_block(latest_block); add; commit
\*   except Exception: rollback (and print unless "unique constraint")
\*   finally: session.close()
LiveIter ==
    /\ pc = "live_open"
    /\ \/ /\ CanFail                                  \* get_block('latest') raises
          /\ faults' = faults + 1
          /\ report' = LiveReport("rpc", FALSE)
          /\ UNCHANGED << store, latest_block >>
       \/ LET m == get_data_at_block(head, vault[head]) IN
          /\ latest_block' = head
          /\ store' = IF UniqueViolation(m, store) THEN store
                      ELSE Commit(<<m>>, store)
          /\ report' = LiveReport(IF UniqueViolation(m, store)
                                  THEN "unique constraint" ELSE "none",
                                  HasBlock(store, head))
          /\ UNCHANGED faults
       \/ /\ CanFail                                  \* get_data_at_block raises
          /\ faults' = faults + 1
          /\ latest_block' = head
          /\ report' = LiveReport("rpc", FALSE)
          /\ UNCHANGED store
       \/ /\ CanFail                                  \* the store fails on commit
          /\ faults' = faults + 1
          /\ latest_block' = head
          /\ \E e \in StoreErrors : report' = LiveReport(e, HasBlock(store, head))
          /\ UNCHANGED store
    /\ events' = Append(events, Sample("live"))
    /\ session' = "closed"
    /\ pending' = << >>
    /\ pc' = "live_sleep"
    /\ UNCHANGED << variant, environ, chain, step, count, current_block, blocks, block,
                    raw_assets, raw_supply, metric, sampled, liveIters,
                    restarts, tvars >>

\* run_live: time.sleep(interval), then the next iteration
LiveSleep ==
    /\ pc = "live_sleep"
    /\ liveIters < MaxLiveIters
    /\ liveIters' = liveIters + 1
    /\ events' = Append(events, Sleep("interval"))
    /\ pc' = "live_open"
    /\ UNCHANGED << variant, environ, chain, store, session, pending, step, locals,
                    sampled, faults, restarts, report, tvars >>

(***************************************************************************)
(* etl.py                                                                  *)
(***************************************************************************)
\* extract_and_transform: latest_block = get_block('latest').
\* Nothing in run or extract_and_transform catches an exception of the reads.
ExtractBlock ==
    /\ pc = "ex_block"
    /\ \/ /\ CanFail
          /\ faults' = faults + 1
          /\ pc' = "terminated"
          /\ UNCHANGED latest_block
       \/ /\ latest_block' = head
          /\ pc' = "ex_assets"
          /\ UNCHANGED faults
    /\ events' = Append(events, Sample("live"))
    /\ UNCHANGED << variant, environ, chain, store, session, pending, step, count,
                    current_block, blocks, block, raw_assets, raw_supply,
                    metric, sampled, liveIters, restarts, report, tvars >>

\* extract_and_transform: raw_assets = totalAssets().call()   (at 'latest')
ExtractAssets ==
    /\ pc = "ex_assets"
    /\ \/ /\ CanFail
          /\ faults' = faults + 1
          /\ pc' = "terminated"
          /\ UNCHANGED raw_assets
       \/ /\ raw_assets' = vault[head].totalAssets
          /\ pc' = "ex_supply"
          /\ UNCHANGED faults
    /\ UNCHANGED << variant, environ, chain, store, session, pending, step, count,
                    current_block, blocks, block, latest_block, raw_supply,
                    metric, sampled, liveIters, restarts, events, report, tvars >>

\* extract_and_transform: raw_supply = totalSupply().call()   (at 'latest')
ExtractSupply ==
    /\ pc = "ex_supply"
    /\ \/ /\ CanFail
          /\ faults' = faults + 1
          /\ pc' = "terminated"
          /\ UNCHANGED raw_supply
       \/ /\ raw_supply' = vault[head].totalSupply
          /\ pc' = "ex_decimals"
          /\ UNCHANGED faults
    /\ UNCHANGED << variant, environ, chain, store, session, pending, step, count,
                    current_block, blocks, block, latest_block, raw_assets,
                    metric, sampled, liveIters, restarts, events, report, tvars >>

\* extract_and_transform: decimals = decimals().call(), the transform, and
\* the VaultMetric returned to run
ExtractDecimals ==
    /\ pc = "ex_decimals"
    /\ \/ /\ CanFail
          /\ faults' = faults + 1
          /\ pc' = "terminated"
          /\ UNCHANGED metric
       \/ /\ metric' = WithReads(ExtractMetric(latest_block, raw_assets, raw_supply,
                                               vaultDecimals),
                                 raw_assets, raw_supply, vaultDecimals)
          /\ pc' = "load"
          /\ UNCHANGED faults
    /\ UNCHANGED << variant, environ, chain, store, session, pending, step, count,
                    current_block, blocks, block, latest_block, raw_assets, raw_supply,
                    sampled, liveIters, restarts, events, report, tvars >>

\* load(metric): session; try add, commit; except rollback, print; finally close
Load ==
    /\ pc = "load"
    /\ \/ /\ store' = IF UniqueViolation(metric, store) THEN store
                      ELSE Commit(<<metric>>, store)
          /\ report' = LoadReport(IF UniqueViolation(metric, store)
                                  THEN "unique constraint" ELSE "none",
                                  HasBlock(store, metric.block_number))
          /\ UNCHANGED faults
       \/ /\ CanFail
          /\ faults' = faults + 1
          /\ \E e \in StoreErrors :
                report' = LoadReport(e, HasBlock(store, metric.block_number))
          /\ UNCHANGED store
    /\ session' = "closed"
    /\ pending' = << >>
    /\ pc' = "run_sleep"
    /\ UNCHANGED << variant, environ, chain, step, locals, sampled, liveIters, restarts,
                    events, tvars >>

\* run: time.sleep(interval), then the next iteration
RunSleep ==
    /\ pc = "run_sleep"
    /\ liveIters < MaxLiveIters
    /\ liveIters' = liveIters + 1
    /\ events' = Append(events, Sleep("interval"))
    /\ pc' = "ex_block"
    /\ UNCHANGED << variant, environ, chain, store, session, pending, step, locals,
                    sampled, faults, restarts, report, tvars >>

(***************************************************************************)
(* Environment                                                             *)
(***************************************************************************)
\* positions whose next step reads the block 'latest'
ReadsLatest == {"bf_head", "live_open", "ex_block", "ex_assets", "ex_supply"}

\* the chain grows.  Only the head seen by the next read of 'latest' matters,
\* so growth is taken right before such a read, and while the backfill loop
\* runs on the head it read at its start.
AdvanceHead ==
    /\ pc \in ReadsLatest \cup {"bf_loop"}
    /\ \E h \in Heads : h > head /\ head' = h
    /\ UNCHANGED << variant, environ, pc, vault, vaultDecimals, store, session, pending,
                    step, locals, sampled, liveIters, faults, restarts, events, report, tvars >>

\* the operator kills the process (or finds it dead) and starts it again;
\* the store survives, everything in memory is lost
Restart ==
    /\ pc \in {"bf_loop", "live_sleep", "run_sleep", "terminated"}
    /\ restarts < MaxRestarts
    /\ restarts' = restarts + 1
    /\ pc' = "start"
    /\ session' = "none"
    /\ pending' = << >>
    /\ count' = NULL /\ current_block' = NULL /\ blocks' = << >> /\ block' = NULL
    /\ latest_block' = NULL /\ raw_assets' = NULL /\ raw_supply' = NULL
    /\ metric' = NULL
    /\ sampled' = << >>
    /\ events' = << >>
    /\ report' = NoReport
    /\ UNCHANGED << variant, environ, chain, store, step, liveIters, faults, tvars >>

Next ==
    \/ Configure
    \/ Construct
    \/ BackfillCount
    \/ BackfillHead
    \/ BackfillIter
    \/ BackfillEnd
    \/ BackfillClose
    \/ LiveIter
    \/ LiveSleep
    \/ ExtractBlock
    \/ ExtractAssets
    \/ ExtractSupply
    \/ ExtractDecimals
    \/ Load
    \/ RunSleep
    \/ AdvanceHead
    \/ Restart

Spec == Init /\ [][Next]_vars

(***************************************************************************)
(* The transforms on their own: both are applied to raw reads drawn from   *)
(* bounded sets, with the pipeline at rest.                                *)
(***************************************************************************)
RawAssets   == {0, 1, 3, 57, 100, 1000, 1500000000}
RawSupplies == {0, 1, 3, 7, 1000000000}
RawDecimals == {0, 1, 2, 9}

TransformInit ==
    /\ variant = "history"
    /\ step = DefaultStep
    /\ pc = "transform"
    /\ head = DEPLOYMENT_BLOCK
    /\ vault = Funded(HeadsFor(DefaultStep))
    /\ vaultDecimals = 9
    /\ store = << >>
    /\ session = "none"
    /\ pending = << >>
    /\ NoLocals
    /\ sampled = << >>
    /\ liveIters = 0
    /\ faults = 0
    /\ restarts = 0
    /\ RPC_URL = "url"
    /\ DB_URL = "url"
    /\ events = << >>
    /\ report = NoReport
    /\ t_in \in { <<[raw_assets |-> a, raw_supply |-> s, decimals |-> d]>> :
                     a \in RawAssets, s \in RawSupplies, d \in RawDecimals }
    /\ t_out = << >>

\* get_data_at_block's transform applied to the reads
ApplyGetData ==
    /\ pc = "transform"
    /\ ~ \E i \in 1..Len(t_out) : t_out[i].by = "get_data_at_block"
    /\ t_out' = Append(t_out,
          [by |-> "get_data_at_block",
           m  |-> GetDataMetric(DEPLOYMENT_BLOCK, t_in[1].raw_assets,
                                t_in[1].raw_supply, t_in[1].decimals)])
    /\ UNCHANGED << variant, environ, pc, chain, store, session, pending, step, locals,
                    sampled, liveIters, faults, restarts, events, report, t_in >>

\* extract_and_transform's transform applied to the reads
ApplyExtract ==
    /\ pc = "transform"
    /\ ~ \E i \in 1..Len(t_out) : t_out[i].by = "extract_and_transform"
    /\ t_out' = Append(t_out,
          [by |-> "extract_and_transform",
           m  |-> ExtractMetric(DEPLOYMENT_BLOCK, t_in[1].raw_assets,
                                t_in[1].raw_supply, t_in[1].decimals)])
    /\ UNCHANGED << variant, environ, pc, chain, store, session, pending, step, locals,
                    sampled, liveIters, faults, restarts, events, report, t_in >>

TransformNext == ApplyGetData \/ ApplyExtract

TransformSpec == TransformInit /\ [][TransformNext]_vars

(***************************************************************************)
(* Properties                                                              *)
(***************************************************************************)
BackfillPcs == {"bf_count", "bf_head", "bf_loop", "bf_close"}
PollingPcs  == {"live_open", "live_sleep",
                "ex_block", "ex_assets", "ex_supply", "ex_decimals", "load", "run_sleep"}

\* C1: no two rows of the store have the same block_number (so two polling
\* iterations that see the same latest block leave one row for it).
C1_OneRowPerBlock ==
    \A i, j \in 1..Len(store) :
        i # j => store[i].block_number # store[j].block_number

\* C2: no step of a polling loop (run_live, run) ends the process: whatever
\* fails in an iteration, the loop goes on.
C2_PollingNeverTerminates ==
    [][(pc \in PollingPcs) => (pc' # "terminated")]_vars

\* C3: a failed iteration of the backfill loop drops no later stride block:
\* the blocks visited so far and the blocks still to visit always make up
\* the whole range, and every block whose sample and commit succeeded has
\* its row in the store.
C3_BackfillSurvivesFailures ==
    (pc \in {"bf_loop", "bf_close"} /\ BackfillNeeded(count)) =>
        LET R == [k \in 1..(Len(sampled) + Len(blocks)) |->
                     IF k <= Len(sampled) THEN sampled[k][1]
                     ELSE blocks[k - Len(sampled)]]
        IN  /\ \A k \in 1..Len(R) : R[k] = DEPLOYMENT_BLOCK + (k - 1) * step
            /\ DEPLOYMENT_BLOCK + Len(R) * step >= current_block
            /\ pc = "bf_close" => blocks = << >>
            /\ \A k \in 1..Len(sampled) :
                  sampled[k][2] = "ok" =>
                      \E i \in 1..Len(store) : store[i].block_number = sampled[k][1]

\* C3 witness: the backfill is over, an iteration failed, and a later stride
\* block is in the store.
C3_Witness ==
    /\ pc = "bf_close"
    /\ \E j, k \in 1..Len(sampled) :
          /\ j < k
          /\ sampled[j][2] # "ok"
          /\ sampled[k][2] = "ok"
          /\ \E i \in 1..Len(store) : store[i].block_number = sampled[k][1]
          /\ ~ \E i \in 1..Len(store) : store[i].block_number = sampled[j][1]

\* C4: a backfill that found rows in the store (count > 0) inserts nothing:
\* no step of it changes the store, and it visits no block.
C4_BackfillOneShot ==
    [][ /\ (pc = "bf_count" /\ Len(store) > 0) => store' = store
        /\ (pc \in {"bf_head", "bf_loop", "bf_close"} /\ count > 0) =>
               (store' = store /\ sampled' = << >>) ]_vars

\* C4 witness: a backfill skipped over a store that holds rows.
C4_Witness ==
    /\ pc = "bf_close"
    /\ count > 0
    /\ Len(store) = count
    /\ sampled = << >>

\* C5: over an empty store the blocks the backfill has visited are
\* DEPLOYMENT_BLOCK + k * step for k = 0, 1, ... in this order, each below the
\* head read at the start; when the loop is over no further such block is
\* below that head.
C5_BackfillBlocks ==
    (pc \in {"bf_loop", "bf_close"} /\ BackfillNeeded(count)) =>
        /\ \A k \in 1..Len(sampled) :
              /\ sampled[k][1] = DEPLOYMENT_BLOCK + (k - 1) * step
              /\ sampled[k][1] < current_block
        /\ pc = "bf_close" =>
              DEPLOYMENT_BLOCK + Len(sampled) * step >= current_block

\* C5 witness: the head read at the start lies on a stride boundary, the
\* loop is over and the head itself was not visited.
C5_Witness ==
    /\ pc = "bf_close"
    /\ BackfillNeeded(count)
    /\ Len(sampled) >= 2
    /\ current_block = DEPLOYMENT_BLOCK + Len(sampled) * step
    /\ head > current_block

\* C6: no failure during the backfill ends the process: backfill_history
\* returns and polling starts.
C6_BackfillNeverTerminates ==
    [][(pc \in BackfillPcs) => (pc' # "terminated")]_vars

\* C7: rows are inserted in non-decreasing order of block_number.
C7_BlocksNonDecreasing ==
    \A i, j \in 1..Len(store) :
        i < j => store[i].block_number <= store[j].block_number

\* C7 witness: a row of the backfill is followed by a row of the polling
\* loop at a later block.
C7_Witness ==
    /\ pc = "live_sleep"
    /\ \E k \in 1..Len(sampled) : sampled[k][2] = "ok"
    /\ Len(store) >= 2
    /\ store[Len(store)].block_number = latest_block
    /\ store[Len(store) - 1].block_number < store[Len(store)].block_number

\* C8: every row carries raw_total_assets, the decimal text of the
\* totalAssets its tvl_assets and share_price were computed from.
C8_RawTotalAssetsStored ==
    \A i \in 1..Len(store) :
        /\ store[i].raw_total_assets # SqlNull
        /\ store[i].raw_total_assets = Str(store[i].reads.totalAssets)

RECURSIVE Pow5(_)
Pow5(d) == IF d = 0 THEN 1 ELSE 5 * Pow5(d - 1)

\* C9: share_price is 1.0 when the supply read is 0, whatever the assets,
\* and otherwise the double nearest to assets / supply; the transform never
\* divides by zero.  (Reads are unsigned, so no metric is negative.)
C9_SharePrice ==
    \A i \in 1..Len(t_out) :
        LET in == t_in[1]
            sp == t_out[i].m.share_price
        IN  /\ sp # ZeroDivisionError
            /\ t_out[i].m.tvl_assets # ZeroDivisionError
            /\ IsFloat(sp)
            /\ in.raw_supply = 0 => sp = FloatOne
            /\ in.raw_supply > 0 => IsNearest(sp, in.raw_assets, in.raw_supply)

\* C9 witness: both transforms were applied to reads with assets and no
\* supply, and gave the sentinel 1.0.
C9_Witness ==
    /\ Len(t_out) = 2
    /\ t_in[1].raw_supply = 0
    /\ t_in[1].raw_assets > 0
    /\ \A i \in 1..2 : t_out[i].m.share_price = FloatOne

C11_DuplicatesSilent ==
    (report.raised # NULL) =>
        /\ (report.printed = "error") <=>
               (report.raised \notin {"none", "unique constraint"})
        /\ report.duplicate => report.printed = "none"

\* C12: in the events of a process, two polling samples with no polling
\* sample between them are separated by exactly one sleep of the interval
\* and by nothing else, whatever the earlier iteration raised.
C12_OneSleepBetweenSamples ==
    \A i, j \in 1..Len(events) :
        ( /\ i < j
          /\ events[i] = Sample("live")
          /\ events[j] = Sample("live")
          /\ \A k \in (i + 1)..(j - 1) : events[k] # Sample("live") ) =>
            /\ j = i + 2
            /\ events[i + 1] = Sleep("interval")

\* C12 witness: the first polling iteration of run_live failed, the loop
\* slept and sampled again.
C12_Witness ==
    /\ pc = "live_sleep"
    /\ restarts = 0
    /\ faults = 1
    /\ \A k \in 1..Len(sampled) : sampled[k][2] = "ok"
    /\ report.raised = "none"
    /\ Len(events) >= 3
    /\ events[Len(events)] = Sample("live")
    /\ events[Len(events) - 1] = Sleep("interval")
    /\ events[Len(events) - 2] = Sample("live")

\* C13: while RPC_URL or DB_URL is not set the process gets no further than
\* its construction: it takes no sample, opens no session and the store
\* stays empty.
C13_MissingParameterAborts ==
    (RPC_URL = NULL \/ DB_URL = NULL) =>
        /\ pc \in {"start", "init", "terminated"}
        /\ events = << >>
        /\ sampled = << >>
        /\ session = "none"
        /\ store = << >>

\* C13 witness: RPC_URL is set, DB_URL is not, and the process has ended
\* in the constructor.
C13_Witness ==
    /\ pc = "terminated"
    /\ RPC_URL # NULL
    /\ DB_URL = NULL
    /\ store = << >>
    /\ events = << >>

\* C14: every step leaves every stored row as it was, so the store only
\* grows at its end; a step in which a sample or an insert fails leaves the
\* store unchanged.
C14_AppendOnly ==
    [][ /\ Len(store') >= Len(store)
        /\ \A i \in 1..Len(store) : store'[i] = store[i]
        /\ (faults' # faults) => (store' = store) ]_vars

\* C14 witness: a polling iteration failed on commit over a store of two
\* rows or more.
C14_Witness ==
    /\ pc = "live_sleep"
    /\ report.raised = "connection"
    /\ Len(store) >= 2

\* C15: the session a persistence attempt acquired is released on every
\* path: whenever the process sleeps between iterations or has ended, no
\* session is left open, and nothing is left pending in it.
C15_SessionReleased ==
    (pc \in {"live_sleep", "run_sleep", "terminated"}) =>
        (session # "open" /\ pending = << >>)

\* C16: between two consecutive samples of the backfill loop there is a
\* pacing delay.
C16_BackfillPaced ==
    \A i \in 1..(Len(events) - 1) :
        events[i] = Sample("backfill") => events[i + 1] # Sample("backfill")

\* C17: every row was computed from the totalAssets and totalSupply the
\* vault had at the row's block_number.
C17_ConsistentSnapshot ==
    \A i \in 1..Len(store) :
        /\ store[i].reads.totalAssets = vault[store[i].block_number].totalAssets
        /\ store[i].reads.totalSupply = vault[store[i].block_number].totalSupply

\* C18: an iteration of the backfill loop adds exactly one row, of the
\* block of that iteration, when its sample and commit succeed, and leaves
\* the store as it was otherwise; nothing of an earlier iteration is
\* committed with it.
C18_OneRowPerIteration ==
    [][ (pc = "bf_loop" /\ Len(sampled') = Len(sampled) + 1) =>
            LET o == sampled'[Len(sampled')] IN
            /\ o[1] = block'
            /\ pending' = << >>
            /\ (o[2] = "ok") =>
                   /\ Len(store') = Len(store) + 1
                   /\ \A i \in 1..Len(store) : store'[i] = store[i]
                   /\ store'[Len(store')].block_number = o[1]
            /\ (o[2] # "ok") => store' = store ]_vars

\* C18 witness: a commit failed in one iteration, a later iteration
\* succeeded, and the store holds one row per successful iteration.
C18_Witness ==
    /\ pc = "bf_loop"
    /\ restarts = 0
    /\ \E j, k \in 1..Len(sampled) :
          j < k /\ sampled[j][2] = "commit failed" /\ sampled[k][2] = "ok"
    /\ Len(store) = Cardinality({ k \in 1..Len(sampled) : sampled[k][2] = "ok" })

====
